---- MODULE Spec2Model ----
(***************************************************************************)
(* State-machine model of the CRM GraphQL backend: the Customer, Product   *)
(* and Order tables (crm/models.py) and the mutations of crm/schema.py     *)
(* (CreateCustomer, BulkCreateCustomers, CreateProduct, CreateOrder).      *)
(*                                                                         *)
(* Database semantics assumed by the model (the settings module is not     *)
(* part of the sources):                                                   *)
(*   - every statement outside transaction.atomic autocommits;             *)
(*   - inside transaction.atomic the writes of a request are invisible to  *)
(*     other requests until the block exits without an exception, and are  *)
(*     discarded when it exits with one;                                   *)
(*   - SELECT ... FOR UPDATE waits until no other transaction holds a lock *)
(*     on a selected row, then reads the committed rows and holds the      *)
(*     locks until the transaction ends;                                   *)
(*   - an unordered query returns its rows in primary-key order;           *)
(*   - unique=True is a UNIQUE index; PositiveIntegerField is NOT taken to *)
(*     be backed by a CHECK constraint (that is backend dependent and no   *)
(*     mutation calls full_clean() on a Product), so only the code's own   *)
(*     checks keep stock from going negative.                              *)
(* Money is kept in hundredths (DecimalField(decimal_places=2)).           *)
(***************************************************************************)
EXTENDS Integers, Sequences, FiniteSets, TLC

VARIABLES
    Customer,    \* table crm_customer: sequence of rows, index = primary key
    Product,     \* table crm_product (committed rows): sequence, index = primary key
    Order,       \* table crm_order with its m2m rows (committed): set of rows
    order_seq,   \* primary-key sequence of crm_order (not rolled back)
    call,        \* the CreateOrder.mutate requests, one per caller
    response,    \* what the step just taken returned to its CreateOrder caller, if anything
    reg          \* the CreateCustomer / BulkCreateCustomers requests, one per registrant

vars == <<Customer, Product, Order, order_seq, call, response, reg>>

(***************************************************************************)
(* Bounds and input sets                                                   *)
(***************************************************************************)
NumCallers == 2
MaxProducts == 2
NumRegistrants == 2

Callers == 1..NumCallers
Registrants == 1..NumRegistrants

\* customer_id arguments: an id the seed created and an id nobody has
CustomerIdInputs == {1, 3}
\* product_ids arguments: empty, single, two distinct ids (not in row order), a repeated id
ProductIdInputs == {<<>>, <<1>>, <<2>>, <<2, 1>>, <<1, 1>>}
\* price arguments (graphene.String) and stock arguments (graphene.Int)
PriceInputs == {"abc", "0", "-5.00", "50.00", "100.00"}
StockInputs == {-1, 0, 1, 2}
\* email arguments
EmailInputs == {"alice@example.com", "bob@example.com", "not-an-email"}
\* customers arguments of BulkCreateCustomers (lists of CustomerInput, by email)
BulkInputs ==
    { <<"alice@example.com", "alice@example.com">>,
      <<"alice@example.com", "bob@example.com">>,
      <<"not-an-email", "bob@example.com">> }

(***************************************************************************)
(* Helpers                                                                 *)
(***************************************************************************)
Range(s) == {s[i] : i \in 1..Len(s)}

Min(S) == CHOOSE x \in S : \A y \in S : x <= y

RECURSIVE SortedSeq(_)
SortedSeq(S) == IF S = {} THEN <<>> ELSE <<Min(S)>> \o SortedSeq(S \ {Min(S)})

RECURSIVE SumPrice(_, _)
SumPrice(table, ids) ==
    IF ids = {} THEN 0
    ELSE LET p == Min(ids) IN table[p].price + SumPrice(table, ids \ {p})

(***************************************************************************)
(* crm/models.py                                                           *)
(***************************************************************************)
\* Order.calculate_total: sum(product.price for product in self.products.all())
calculate_total(order) == SumPrice(Product, order.products)

\* models.Model.save alone: total_amount is written as it stands
Model_save(order) == order

\* Order.save: write the row, recompute total_amount, write total_amount
Order_save(order) == [order EXCEPT !.total_amount = calculate_total(order)]

\* Order(customer=customer, order_date=...) before its first save
NewOrder(customer_id) ==
    [id |-> 0, customer |-> customer_id, products |-> {}, total_amount |-> 0]

NoOrder == NewOrder(0)

\* no CreateOrder request ended in the step just taken
NoResponse == [customer_id |-> 0, product_ids |-> <<>>, result |-> "", named |-> 0]

(***************************************************************************)
(* CreateProduct.mutate                                                    *)
(***************************************************************************)
InvalidOperation == -1000000

\* Decimal(price) on the price arguments, in hundredths
Decimal(price) ==
    CASE price = "0" -> 0
      [] price = "-5.00" -> -500
      [] price = "50.00" -> 5000
      [] price = "100.00" -> 10000
      [] OTHER -> InvalidOperation

CreateProductAccepts(price, stock) ==
    /\ Decimal(price) # InvalidOperation
    /\ ~(Decimal(price) <= 0)
    /\ ~(stock < 0)

CreateProduct ==
    \E price \in PriceInputs, stock \in StockInputs :
        /\ Len(Product) < MaxProducts
        /\ Product' = IF CreateProductAccepts(price, stock)
                      THEN Append(Product, [price |-> Decimal(price), stock |-> stock])
                      ELSE Product
        /\ response' = NoResponse
        /\ UNCHANGED <<Customer, Order, order_seq, call, reg>>

(***************************************************************************)
(* CreateOrder.mutate                                                      *)
(***************************************************************************)
IdleCall ==
    [pc |-> "idle", customer_id |-> 0, product_ids |-> <<>>, rows |-> <<>>,
     i |-> 0, order |-> NoOrder]

DoneCall == [IdleCall EXCEPT !.pc = "done"]

InTransaction == {"save_order", "set_products", "decrement", "save_total", "commit"}

\* the rows a transaction holds FOR UPDATE locks on
Held(t) ==
    IF call[t].pc \in InTransaction
    THEN {call[t].rows[k].id : k \in 1..Len(call[t].rows)}
    ELSE {}

\* a plain filter(): the read takes no lock and waits for none
filter_without_lock(t, ids) == TRUE

\* select_for_update(): the selected rows are locked by no other transaction
select_for_update(t, ids) == \A u \in Callers \ {t} : Held(u) \cap ids = {}

\* Product.objects.filter(id__in=product_ids): the matching primary keys
filter_id_in(product_ids) == {p \in 1..Len(Product) : p \in Range(product_ids)}

\* the model instances the queryset yields, in row order
Rows(ids) ==
    LET s == SortedSeq(ids)
    IN [k \in 1..Len(s) |-> [id |-> s[k], stock |-> Product[s[k]].stock]]

\* the stock test off by one: a product with no unit left passes
OutOfStock_below_zero(product) == product.stock < 0

\* the stock test of the availability loop
OutOfStock(product) == product.stock <= 0

\* index of the first row the availability loop raises on, 0 when none
FirstOutOfStock(rows) ==
    LET bad == {k \in 1..Len(rows) : OutOfStock(rows[k])}
    IN IF bad = {} THEN 0 ELSE Min(bad)

\* mutate without the decorator: every write is kept, whatever the exit
autocommit(result) == TRUE

\* @transaction.atomic: the writes are kept iff the block exits without exception
transaction_atomic(result) == result = "ok"

\* crm_product after the product.save() calls made so far (rows 1..i-1)
WrittenProducts(c) ==
    [p \in 1..Len(Product) |->
        IF \E k \in 1..(c.i - 1) : c.rows[k].id = p
        THEN [Product[p] EXCEPT !.stock =
                 c.rows[CHOOSE k \in 1..(c.i - 1) : c.rows[k].id = p].stock]
        ELSE Product[p]]

WrittenOrders(c) == IF c.order.id = 0 THEN {} ELSE {c.order}

\* what the caller receives
Response(c, result, named) ==
    [customer_id |-> c.customer_id, product_ids |-> c.product_ids,
     result |-> result, named |-> named]

\* leaving mutate with `result`: commit or roll back, release the locks
Exit(t, result, named) ==
    /\ Product' = IF transaction_atomic(result) THEN WrittenProducts(call[t]) ELSE Product
    /\ Order' = IF transaction_atomic(result) THEN Order \cup WrittenOrders(call[t]) ELSE Order
    /\ call' = [call EXCEPT ![t] = DoneCall]
    /\ response' = Response(call[t], result, named)

\* the count compared with the number of distinct ids
CountMismatch_distinct(product_ids) ==
    Cardinality({p \in 1..Len(Product) : p \in Range(product_ids)})
        # Cardinality(Range(product_ids))

\* line 143: products.count() != len(product_ids)
CountMismatch(product_ids) == Cardinality(filter_id_in(product_ids)) # Len(product_ids)

\* the empty-list test made before the customer lookup
CheckArguments_empty_first(customer_id, product_ids) ==
    IF product_ids = <<>> THEN "At least one product is required"
    ELSE IF customer_id \notin 1..Len(Customer) THEN "Invalid customer ID"
    ELSE IF Cardinality({p \in 1..Len(Product) : p \in Range(product_ids)})
                # Len(product_ids)
         THEN "Some product IDs are invalid"
    ELSE ""

\* the empty-list test left out
CheckArguments_no_empty_test(customer_id, product_ids) ==
    IF customer_id \notin 1..Len(Customer) THEN "Invalid customer ID"
    ELSE IF Cardinality({p \in 1..Len(Product) : p \in Range(product_ids)})
                # Len(product_ids)
         THEN "Some product IDs are invalid"
    ELSE ""

\* the checks of lines 134-144 on the arguments, in the code's order: "" when they pass
CheckArguments(customer_id, product_ids) ==
    IF customer_id \notin 1..Len(Customer) THEN "Invalid customer ID"
    ELSE IF product_ids = <<>> THEN "At least one product is required"
    ELSE IF CountMismatch(product_ids) THEN "Some product IDs are invalid"
    ELSE ""

\* lines 133-144: customer lookup, empty-list test, products.count().  The request
\* is taken up at the moment of its count query: the customer lookup before it reads a
\* table no CreateOrder step writes, so the three checks are one step.
Begin(t) ==
    \E customer_id \in CustomerIdInputs, product_ids \in ProductIdInputs :
        /\ call[t].pc = "idle"
        /\ \A u \in Callers : u < t => call[u].pc # "idle"
        /\ LET c == [call[t] EXCEPT !.customer_id = customer_id,
                                    !.product_ids = product_ids]
               error == CheckArguments(customer_id, product_ids)
           IN IF error # ""
              THEN /\ call' = [call EXCEPT ![t] = DoneCall]
                   /\ response' = Response(c, error, 0)
              ELSE /\ call' = [call EXCEPT ![t] = [c EXCEPT !.pc = "lock"]]
                   /\ response' = NoResponse
        /\ UNCHANGED <<Customer, Product, Order, order_seq, reg>>

\* lines 147-149: the queryset is evaluated (the locking read), stock is tested
Lock(t) ==
    /\ call[t].pc = "lock"
    /\ select_for_update(t, filter_id_in(call[t].product_ids))
    /\ LET rows == Rows(filter_id_in(call[t].product_ids))
           k == FirstOutOfStock(rows)
       IN IF k # 0
          THEN Exit(t, "out of stock", rows[k].id)
          ELSE /\ call' = [call EXCEPT ![t].pc = "save_order", ![t].rows = rows]
               /\ response' = NoResponse
            /\ UNCHANGED <<Product, Order>>
    /\ UNCHANGED <<Customer, order_seq, reg>>

\* lines 152-153: order = Order(...); order.save()
SaveOrder(t) ==
    /\ call[t].pc = "save_order"
    /\ order_seq' = order_seq + 1
    /\ call' = [call EXCEPT ![t].pc = "set_products",
                            ![t].order = Order_save(
                                [NewOrder(call[t].customer_id) EXCEPT !.id = order_seq + 1])]
    /\ response' = NoResponse
    /\ UNCHANGED <<Customer, Product, Order, reg>>

\* line 154: order.products.set(products)
SetProducts(t) ==
    /\ call[t].pc = "set_products"
    /\ call' = [call EXCEPT ![t].pc = "decrement", ![t].i = 1,
                            ![t].order.products =
                                {call[t].rows[k].id : k \in 1..Len(call[t].rows)}]
    /\ response' = NoResponse
    /\ UNCHANGED <<Customer, Product, Order, order_seq, reg>>

\* lines 156-158: one turn of the loop: product.stock -= 1; product.save()
Decrement(t) ==
    /\ call[t].pc = "decrement"
    /\ LET i == call[t].i
       IN call' = [call EXCEPT
              ![t].rows[i].stock = @ - 1,
              ![t].i = i + 1,
              ![t].pc = IF i = Len(call[t].rows) THEN "save_total" ELSE "decrement"]
    /\ response' = NoResponse
    /\ UNCHANGED <<Customer, Product, Order, order_seq, reg>>

\* line 160: order.save()
SaveTotal(t) ==
    /\ call[t].pc = "save_total"
    /\ call' = [call EXCEPT ![t].pc = "commit", ![t].order = Order_save(call[t].order)]
    /\ response' = NoResponse
    /\ UNCHANGED <<Customer, Product, Order, order_seq, reg>>

\* line 161: return; the atomic block commits
Commit(t) ==
    /\ call[t].pc = "commit"
    /\ Exit(t, "ok", 0)
    /\ UNCHANGED <<Customer, order_seq, reg>>

\* a statement after the locking read raises a database error
StoreFailure(t) ==
    /\ call[t].pc \in InTransaction
    /\ Exit(t, "database error", 0)
    /\ UNCHANGED <<Customer, order_seq, reg>>

(***************************************************************************)
(* CreateCustomer.mutate and BulkCreateCustomers.mutate                    *)
(* A customer row is represented by its email; name and phone play no part *)
(* in any check but the blank-name test of full_clean(), which the name    *)
(* arguments used here pass.                                               *)
(***************************************************************************)
\* re.match(r"[^@]+@[^@]+\.[^@]+", email) on the email arguments
re_match(email) == email \in {"alice@example.com", "bob@example.com"}

\* EmailField's validator on the email arguments
EmailValidator(email) == email \in {"alice@example.com", "bob@example.com"}

\* Customer.objects.filter(email=email).exists()
EmailExists(email) == \E k \in 1..Len(Customer) : Customer[k].email = email

\* email declared without unique=True: every insert is accepted
NoUniqueIndex(email) == TRUE

\* the UNIQUE index of crm_customer.email accepts the insert
UniqueIndexAccepts(email) == ~EmailExists(email)

\* customer.full_clean(): field validators, then validate_unique()
full_clean(email) == EmailValidator(email) /\ ~EmailExists(email)

IdleReg == [pc |-> "idle", kind |-> "", todo |-> <<>>, errors |-> 0, result |-> ""]

\* the request ends
Finished(r, result) == [reg[r] EXCEPT !.pc = "done", !.todo = <<>>, !.result = result]

\* BulkCreateCustomers: `continue`, or the end of the loop body
NextItem(r, errors) ==
    IF Len(reg[r].todo) = 1
    THEN [Finished(r, "ok") EXCEPT !.errors = errors]
    ELSE [reg[r] EXCEPT !.pc = "exists", !.todo = Tail(@), !.errors = errors]

\* CreateCustomer arrives: lines 57-58
BeginCreate(r) ==
    \E email \in EmailInputs :
        /\ reg[r].pc = "idle"
        /\ \A q \in Registrants : q < r => reg[q].pc # "idle"
        /\ reg' = [reg EXCEPT ![r] =
               IF ~re_match(email)
               THEN [Finished(r, "Invalid email format") EXCEPT !.kind = "create"]
               ELSE [@ EXCEPT !.pc = "exists", !.kind = "create", !.todo = <<email>>]]
        /\ response' = NoResponse
        /\ UNCHANGED <<Customer, Product, Order, order_seq, call>>

\* BulkCreateCustomers arrives: lines 77-80
BeginBulk(r) ==
    \E customers \in BulkInputs :
        /\ reg[r].pc = "idle"
        /\ \A q \in Registrants : q < r => reg[q].pc # "idle"
        /\ reg' = [reg EXCEPT ![r] =
               [@ EXCEPT !.pc = "exists", !.kind = "bulk", !.todo = customers]]
        /\ response' = NoResponse
        /\ UNCHANGED <<Customer, Product, Order, order_seq, call>>

\* lines 60-61 and 82-84: the existence query
Exists(r) ==
    /\ reg[r].pc = "exists"
    /\ reg' = [reg EXCEPT ![r] =
           IF EmailExists(Head(reg[r].todo))
           THEN IF reg[r].kind = "create"
                THEN Finished(r, "Email already exists")
                ELSE NextItem(r, reg[r].errors + 1)
           ELSE [@ EXCEPT !.pc = "full_clean"]]
    /\ response' = NoResponse
    /\ UNCHANGED <<Customer, Product, Order, order_seq, call>>

\* lines 64 and 89, 92-93: full_clean(); ValidationError is caught in the bulk loop only
FullClean(r) ==
    /\ reg[r].pc = "full_clean"
    /\ reg' = [reg EXCEPT ![r] =
           IF ~full_clean(Head(reg[r].todo))
           THEN IF reg[r].kind = "create"
                THEN Finished(r, "ValidationError")
                ELSE NextItem(r, reg[r].errors + 1)
           ELSE [@ EXCEPT !.pc = "save"]]
    /\ response' = NoResponse
    /\ UNCHANGED <<Customer, Product, Order, order_seq, call>>

\* lines 65-66 and 90-91: customer.save(); IntegrityError is caught nowhere
Save(r) ==
    /\ reg[r].pc = "save"
    /\ LET email == Head(reg[r].todo)
       IN IF UniqueIndexAccepts(email)
          THEN /\ Customer' = Append(Customer, [email |-> email])
               /\ reg' = [reg EXCEPT ![r] =
                      IF reg[r].kind = "create" THEN Finished(r, "ok")
                      ELSE NextItem(r, reg[r].errors)]
          ELSE /\ Customer' = Customer
               /\ reg' = [reg EXCEPT ![r] = Finished(r, "IntegrityError")]
    /\ response' = NoResponse
    /\ UNCHANGED <<Product, Order, order_seq, call>>

(***************************************************************************)
(* Specifications                                                          *)
(***************************************************************************)
\* seed_db.run(): the two customers
SeededCustomers == <<[email |-> "alice@example.com"], [email |-> "bob@example.com"]>>

\* Order placement and product creation on a database holding the seeded customers
Init ==
    /\ Customer = SeededCustomers
    /\ Product = <<>>
    /\ Order = {}
    /\ order_seq = 0
    /\ call = [t \in Callers |-> IdleCall]
    /\ response = NoResponse
    /\ reg = [r \in Registrants |-> IdleReg]

Next ==
    \/ CreateProduct
    \/ \E t \in Callers : Begin(t)
    \/ \E t \in Callers : Lock(t)
    \/ \E t \in Callers : SaveOrder(t)
    \/ \E t \in Callers : SetProducts(t)
    \/ \E t \in Callers : Decrement(t)
    \/ \E t \in Callers : SaveTotal(t)
    \/ \E t \in Callers : Commit(t)
    \/ \E t \in Callers : StoreFailure(t)

Spec == Init /\ [][Next]_vars

\* Customer registration on an empty database
InitCustomers ==
    /\ Customer = <<>>
    /\ Product = <<>>
    /\ Order = {}
    /\ order_seq = 0
    /\ call = [t \in Callers |-> IdleCall]
    /\ response = NoResponse
    /\ reg = [r \in Registrants |-> IdleReg]

NextCustomers ==
    \/ \E r \in Registrants : BeginCreate(r)
    \/ \E r \in Registrants : BeginBulk(r)
    \/ \E r \in Registrants : Exists(r)
    \/ \E r \in Registrants : FullClean(r)
    \/ \E r \in Registrants : Save(r)

SpecCustomers == InitCustomers /\ [][NextCustomers]_vars

\* The race for the last unit: every caller has sent a request that passed the
\* argument checks and names product 1, whose stock is 1; no statement fails.
RaceProducts ==
    { <<[price |-> p1, stock |-> 1], [price |-> p2, stock |-> s2]>> :
        p1 \in {5000, 10000}, p2 \in {5000, 10000}, s2 \in {1, 2} }

InitRace ==
    /\ Customer = SeededCustomers
    /\ Product \in RaceProducts
    /\ Order = {}
    /\ order_seq = 0
    /\ call \in [Callers ->
                   {[IdleCall EXCEPT !.pc = "lock", !.customer_id = 1, !.product_ids = ids] :
                        ids \in {<<1>>, <<2, 1>>}}]
    /\ response = NoResponse
    /\ reg = [r \in Registrants |-> IdleReg]

NextRace ==
    \/ \E t \in Callers : Lock(t)
    \/ \E t \in Callers : SaveOrder(t)
    \/ \E t \in Callers : SetProducts(t)
    \/ \E t \in Callers : Decrement(t)
    \/ \E t \in Callers : SaveTotal(t)
    \/ \E t \in Callers : Commit(t)

SpecRace == InitRace /\ [][NextRace]_vars

(***************************************************************************)
(* Properties                                                              *)
(***************************************************************************)
AllDone == \A t \in Callers : call[t].pc = "done"

CustomerKnown(customer_id) == customer_id \in 1..Len(Customer)

HasRepeatedId(ids) == \E j, k \in 1..Len(ids) : j # k /\ ids[j] = ids[k]

Answered == response.result # ""

\* C1: when every caller orders product 1 while its stock is 1, exactly one order is
\* committed, every other caller is answered "out of stock" (for product 1), the stock
\* of product 1 ends at 0 and no stock is ever negative.
C1_OneWinner ==
    /\ \A p \in 1..Len(Product) : Product[p].stock >= 0
    /\ response.result \in {"", "ok", "out of stock"}
    /\ response.result = "out of stock" => response.named = 1 /\ Product[1].stock = 0
    /\ Cardinality(Order) <= 1
    /\ AllDone => Cardinality(Order) = 1 /\ Product[1].stock = 0

C1_Witness ==
    /\ AllDone
    /\ Cardinality(Order) = 1
    /\ response.result = "out of stock"

\* C2: the committed stock of every product is at least 0 in every reachable state.
C2_StockNonNegative == \A p \in 1..Len(Product) : Product[p].stock >= 0

C2_Witness ==
    /\ Len(Product) = MaxProducts
    /\ \E o \in Order : \E p \in o.products : Product[p].stock = 0

\* C3: a step that answers a CreateOrder request with an error leaves the committed
\* orders, their product associations and every product's stock as they were.
C3_AllOrNothing ==
    [][(response'.result \notin {"", "ok"}) => (Order' = Order /\ Product' = Product)]_vars

C3_Witness ==
    /\ response.result = "database error"
    /\ order_seq = 1
    /\ Order = {}
    /\ \A t \in Callers : call[t].pc \notin InTransaction

\* C4: every committed order's total_amount is the sum of the prices of its products,
\* and is never the provisional 0 of the first save.
C4_TotalIsSum ==
    \A o \in Order :
        /\ o.total_amount = SumPrice(Product, o.products)
        /\ o.total_amount # 0

C4_Witness ==
    \E o \in Order : Cardinality(o.products) = 2 /\ o.total_amount = 15000

\* C5: every step lowers the committed stock of each product by exactly the number of
\* orders on that product committed in the step (one per successful call, none
\* otherwise), so n successful orders on a product lower its stock by n.
C5_ExactDecrement ==
    [][\A p \in 1..Len(Product) :
          Product'[p].stock =
              Product[p].stock - Cardinality({o \in Order' \ Order : p \in o.products})]_vars

C5_Witness ==
    \E p \in 1..Len(Product) :
        /\ Cardinality({o \in Order : p \in o.products}) = 2
        /\ Product[p].stock = 0

\* C6 as stated: a request with an empty product list is always answered with the
\* empty-product-list error, whether or not its customer exists.
C6_AlwaysEmptyListError ==
    (Answered /\ response.product_ids = <<>>)
        => response.result = "At least one product is required"

\* C6 amended: a request with an empty product list always fails and creates no order;
\* the error is the empty-product-list error when the customer exists and the
\* invalid-customer error when it does not.
C6_EmptyListFails ==
    [][(response'.result # "" /\ response'.product_ids = <<>>) =>
          /\ response'.result = IF CustomerKnown(response'.customer_id)
                                THEN "At least one product is required"
                                ELSE "Invalid customer ID"
          /\ Order' = Order
          /\ Product' = Product]_vars

C6_Witness ==
    /\ response.product_ids = <<>>
    /\ response.result = "At least one product is required"
    /\ CustomerKnown(response.customer_id)

\* C7: every committed order references an existing customer and at least one
\* product, all of them existing; the order row saved without products is never
\* among the committed orders.
C7_OrderReferences ==
    \A o \in Order :
        /\ CustomerKnown(o.customer)
        /\ o.products # {}
        /\ o.products \subseteq 1..Len(Product)

C7_Witness ==
    \E t \in Callers :
        /\ call[t].pc = "set_products"
        /\ call[t].order.id # 0
        /\ call[t].order.products = {}
        /\ call[t].order.total_amount = 0
        /\ Order # {}

\* C8 as stated: a request that repeats an id, for an existing customer and existing
\* products in stock, is handled like the request naming the id once (it is not
\* refused).
C8_RepeatedIdHandledOnce ==
    ( /\ Answered
      /\ HasRepeatedId(response.product_ids)
      /\ CustomerKnown(response.customer_id)
      /\ \A p \in Range(response.product_ids) :
             p \in 1..Len(Product) /\ Product[p].stock > 0 )
        => response.result \in {"ok", "database error"}

\* C8 amended: a request that repeats an id, for an existing customer, is always
\* refused with "Some product IDs are invalid"; no order is created and no stock is
\* decremented.
C8_RepeatedIdRefused ==
    [][( /\ response'.result # ""
         /\ HasRepeatedId(response'.product_ids)
         /\ CustomerKnown(response'.customer_id) ) =>
          /\ response'.result = "Some product IDs are invalid"
          /\ Order' = Order
          /\ Product' = Product]_vars

C8_Witness ==
    /\ response.product_ids = <<1, 1>>
    /\ response.result = "Some product IDs are invalid"
    /\ Len(Product) >= 1
    /\ Product[1].stock > 0

\* C9: no two customer rows share an email.
C9_EmailUnique ==
    \A j, k \in 1..Len(Customer) : j # k => Customer[j].email # Customer[k].email

C9_Witness ==
    /\ \E r \in Registrants : reg[r].result = "IntegrityError"
    /\ \E r \in Registrants : reg[r].kind = "bulk" /\ reg[r].errors > 0
    /\ Len(Customer) >= 1

\* the stock test failed for product p when the answer was produced
ZeroStock(p) == p \in 1..Len(Product) /\ Product[p].stock <= 0

\* the checks in their fixed order; who is named by "out of stock" is left to `named`
ChecksInOrder(named) ==
    Answered =>
        IF ~CustomerKnown(response.customer_id)
        THEN response.result = "Invalid customer ID"
        ELSE IF response.product_ids = <<>>
        THEN response.result = "At least one product is required"
        ELSE IF Cardinality({p \in 1..Len(Product) : p \in Range(response.product_ids)})
                    # Len(response.product_ids)
        THEN response.result = "Some product IDs are invalid"
        ELSE /\ response.result \in {"out of stock", "ok", "database error"}
             /\ response.result = "out of stock" =>
                    /\ \E p \in Range(response.product_ids) : ZeroStock(p)
                    /\ response.named = named

====
